---- MODULE Spec2Model ----
(***************************************************************************)
(* clone_launch_config.py: clone an AWS launch configuration, overriding   *)
(* the fields named on the command line.                                   *)
(*                                                                         *)
(* A Python value that may be None is modelled as a sequence of length at  *)
(* most one: None is <<>> and the value v is <<v>>, so that "x is None" is *)
(* x = None and a falsy value (False, 0, '') stays distinct from None.     *)
(* Spot prices are counted in tenths of a currency unit (-1.5 is -15).     *)
(***************************************************************************)
EXTENDS Integers, Sequences, FiniteSets, TLC

VARIABLES
    pc,             \* position of main(): the step about to run, or "exit"
    env,            \* os.environ: the set of variables that are set
    argv,           \* sys.argv[1:] once parse_cli has read it, else None
    args,           \* main's args: <<namespace>> or None
    conn,           \* main's conn: <<connection>> or None
    old_lc,         \* main's old_lc: <<launch configuration>> or None
    new_lc,         \* main's new_lc: <<launch configuration>> or None
    backend,        \* launch configurations held by the autoscaling service
    backend_before, \* the service's launch configurations when the run began
    calls,          \* calls made on boto, in order, with how each ended
    exit_code,      \* the process's exit status: <<code>>, or None while running
    output          \* the diagnostics printed so far

vars == <<pc, env, argv, args, conn, old_lc, new_lc, backend, backend_before,
          calls, exit_code, output>>

None == <<>>

(* Bounds of the model. *)
MaxArgs == 2
MaxMatches == 2

(***************************************************************************)
(* The inputs: environment, file system, command line, service contents.   *)
(***************************************************************************)
EnvVars == {"AWS_DEFAULT_REGION", "AWS_ACCESS_KEY_ID", "AWS_SECRET_ACCESS_KEY"}

DefaultRegion == "us-east-1"

FileSystem == ("/ud.sh" :> "#!/bin/sh")

OldName == "lc-v1"

NewNames == {"lc-v1", "lc-v2"}

SourceLC(m, e) ==
    [name |-> OldName,
     image_id |-> <<"ami-111">>,
     key_name |-> <<"key-a">>,
     security_groups |-> << <<"sg-a">> >>,
     user_data |-> <<"#cloud-config">>,
     instance_type |-> <<"t2.micro">>,
     instance_monitoring |-> <<m>>,
     spot_price |-> <<5>>,
     instance_profile_name |-> <<"prof-a">>,
     ebs_optimized |-> <<e>>,
     associate_public_ip_address |-> <<m = e>>]

SourceLCs == {SourceLC(m, e) : m \in BOOLEAN, e \in BOOLEAN}

(* A second launch configuration answering to the same name. *)
OtherLC(lc) ==
    [lc EXCEPT !.image_id = <<"ami-999">>,
               !.instance_monitoring = <<~lc.instance_monitoring[1]>>,
               !.ebs_optimized = <<~lc.ebs_optimized[1]>>]

Backends ==
    {[i \in 1..k |-> IF i = 1 THEN lc ELSE OtherLC(lc)] :
        lc \in SourceLCs, k \in 0..MaxMatches}

Tokens ==
    {[opt |-> "--ami", val |-> "ami-222"],
     [opt |-> "--ssh-key", val |-> ""],
     [opt |-> "--security-group", val |-> "sg-b"],
     [opt |-> "--user-data-script", val |-> "/ud.sh"],
     [opt |-> "--user-data-script", val |-> "/missing"],
     [opt |-> "--instance-type", val |-> "m3.large"],
     [opt |-> "--enable-instance-monitoring", val |-> ""],
     [opt |-> "--disable-instance-monitoring", val |-> ""],
     [opt |-> "--spot-price", val |-> "0"],
     [opt |-> "--spot-price", val |-> "-1.5"],
     [opt |-> "--spot-price", val |-> "abc"],
     [opt |-> "--instance-profile-name", val |-> "prof-b"],
     [opt |-> "--enable-ebs-optimized", val |-> ""],
     [opt |-> "--disable-ebs-optimized", val |-> ""],
     [opt |-> "--enable-associate-public-ip-address", val |-> ""],
     [opt |-> "--disable-associate-public-ip-address", val |-> ""]}

OptSeqs == UNION {[1..n -> Tokens] : n \in 0..MaxArgs}

Argvs == [old_lc_name : {OldName}, new_lc_name : NewNames, opts : OptSeqs]

(***************************************************************************)
(* parse_cli and the argparse machinery it configures.                     *)
(***************************************************************************)
Value(v) == [kind |-> "value", v |-> <<v>>, msg |-> ""]

isfile(infile) == infile \in DOMAIN FileSystem

parse_user_data_nocheck(infile) ==
    IF isfile(infile) THEN Value(FileSystem[infile]) ELSE Value("")

parse_user_data(infile) ==
    IF isfile(infile)
    THEN Value(FileSystem[infile])
    ELSE [kind |-> "SystemExit", v |-> None, msg |-> "File not found"]

FloatOf == ("0" :> 0) @@ ("-1.5" :> -15)

float_nonneg(s) ==
    IF s \in DOMAIN FloatOf /\ FloatOf[s] >= 0
    THEN Value(FloatOf[s])
    ELSE [kind |-> "ValueError", v |-> None, msg |-> "invalid float value"]

float(s) ==
    IF s \in DOMAIN FloatOf
    THEN Value(FloatOf[s])
    ELSE [kind |-> "ValueError", v |-> None, msg |-> "invalid float value"]

Arg(action, dest, type, const) ==
    [action |-> action, dest |-> dest, type |-> type, const |-> const]

OptionsSameConst ==
    ("--ami" :> Arg("store", "image_id", "str", None)) @@
    ("--ssh-key" :> Arg("store", "key_name", "str", None)) @@
    ("--security-group" :> Arg("append", "security_groups", "str", None)) @@
    ("--user-data-script" :> Arg("store", "user_data", "parse_user_data", None)) @@
    ("--instance-type" :> Arg("store", "instance_type", "str", None)) @@
    ("--enable-instance-monitoring" :>
        Arg("store_const", "instance_monitoring", "str", <<TRUE>>)) @@
    ("--disable-instance-monitoring" :>
        Arg("store_const", "instance_monitoring", "str", <<TRUE>>)) @@
    ("--spot-price" :> Arg("store", "spot_price", "float", None)) @@
    ("--instance-profile-name" :>
        Arg("store", "instance_profile_name", "str", None)) @@
    ("--enable-ebs-optimized" :>
        Arg("store_const", "ebs_optimized", "str", <<TRUE>>)) @@
    ("--disable-ebs-optimized" :>
        Arg("store_const", "ebs_optimized", "str", <<TRUE>>)) @@
    ("--enable-associate-public-ip-address" :>
        Arg("store_const", "associate_public_ip_address", "str", <<TRUE>>)) @@
    ("--disable-associate-public-ip-address" :>
        Arg("store_const", "associate_public_ip_address", "str", <<TRUE>>)) @@
    ("--region" :> Arg("store", "region", "str", None))

Options ==
    ("--ami" :> Arg("store", "image_id", "str", None)) @@
    ("--ssh-key" :> Arg("store", "key_name", "str", None)) @@
    ("--security-group" :> Arg("append", "security_groups", "str", None)) @@
    ("--user-data-script" :> Arg("store", "user_data", "parse_user_data", None)) @@
    ("--instance-type" :> Arg("store", "instance_type", "str", None)) @@
    ("--enable-instance-monitoring" :>
        Arg("store_const", "instance_monitoring", "str", <<TRUE>>)) @@
    ("--disable-instance-monitoring" :>
        Arg("store_const", "instance_monitoring", "str", <<FALSE>>)) @@
    ("--spot-price" :> Arg("store", "spot_price", "float", None)) @@
    ("--instance-profile-name" :>
        Arg("store", "instance_profile_name", "str", None)) @@
    ("--enable-ebs-optimized" :>
        Arg("store_const", "ebs_optimized", "str", <<TRUE>>)) @@
    ("--disable-ebs-optimized" :>
        Arg("store_const", "ebs_optimized", "str", <<FALSE>>)) @@
    ("--enable-associate-public-ip-address" :>
        Arg("store_const", "associate_public_ip_address", "str", <<TRUE>>)) @@
    ("--disable-associate-public-ip-address" :>
        Arg("store_const", "associate_public_ip_address", "str", <<FALSE>>)) @@
    ("--region" :> Arg("store", "region", "str", None))

(* The namespace argparse starts from: every dest at its default. *)
Defaults(av) ==
    [old_lc_name |-> av.old_lc_name,
     new_lc_name |-> av.new_lc_name,
     image_id |-> None,
     key_name |-> None,
     security_groups |-> None,
     user_data |-> None,
     instance_type |-> None,
     instance_monitoring |-> None,
     spot_price |-> None,
     instance_profile_name |-> None,
     ebs_optimized |-> None,
     associate_public_ip_address |-> None,
     region |-> DefaultRegion]

(* argparse applies the option's type to the option's string. *)
Convert(type, s) ==
    CASE type = "float" -> float(s)
      [] type = "parse_user_data" -> parse_user_data(s)
      [] OTHER -> Value(s)

Parsed(ns) == [exit |-> None, msg |-> "", ns |-> ns]

Exited(code, msg, ns) == [exit |-> <<code>>, msg |-> msg, ns |-> ns]

(* One option of the command line, applied to the namespace. *)
take_action(ns, tok) ==
    LET o == Options[tok.opt]
        c == Convert(o.type, tok.val)
    IN  CASE o.action = "store_const" -> Parsed([ns EXCEPT ![o.dest] = o.const])
          [] c.kind = "ValueError" -> Exited(2, c.msg, ns)
          [] c.kind = "SystemExit" -> Exited(1, c.msg, ns)
          [] o.action = "append" ->
                Parsed([ns EXCEPT ![o.dest] =
                    << (IF ns[o.dest] = None THEN <<>> ELSE ns[o.dest][1])
                       \o c.v >>])
          [] OTHER -> Parsed([ns EXCEPT ![o.dest] = c.v])

RECURSIVE parse_args(_, _)
parse_args(ns, opts) ==
    IF opts = <<>>
    THEN Parsed(ns)
    ELSE LET r == take_action(ns, Head(opts))
         IN  IF r.exit # None THEN r ELSE parse_args(r.ns, Tail(opts))

parse_cli(passed_args) == parse_args(Defaults(passed_args), passed_args.opts)

(***************************************************************************)
(* merge_lcs.                                                              *)
(***************************************************************************)
LaunchConfiguration(name, image_id, key_name, security_groups, user_data, instance_type, instance_monitoring, spot_price, instance_profile_name, ebs_optimized, associate_public_ip_address) ==
    [name |-> name,
     image_id |-> image_id,
     key_name |-> key_name,
     security_groups |-> security_groups,
     user_data |-> user_data,
     instance_type |-> instance_type,
     instance_monitoring |-> instance_monitoring,
     spot_price |-> spot_price,
     instance_profile_name |-> instance_profile_name,
     ebs_optimized |-> ebs_optimized,
     associate_public_ip_address |-> associate_public_ip_address]

(* Python's truth test of a string-valued option: None and '' fail. *)
Truthy(x) == x # None /\ x # <<"">>

merge_lcs_truthy(old, a) ==
    LaunchConfiguration(
        a.new_lc_name,
        IF Truthy(a.image_id) THEN a.image_id ELSE old.image_id,
        IF Truthy(a.key_name) THEN a.key_name ELSE old.key_name,
        IF a.security_groups = None THEN old.security_groups ELSE a.security_groups,
        IF Truthy(a.user_data) THEN a.user_data ELSE old.user_data,
        IF Truthy(a.instance_type) THEN a.instance_type ELSE old.instance_type,
        IF a.instance_monitoring = None \/ a.instance_monitoring = <<FALSE>>
            THEN old.instance_monitoring ELSE a.instance_monitoring,
        IF a.spot_price = None \/ a.spot_price = <<0>>
            THEN old.spot_price ELSE a.spot_price,
        IF Truthy(a.instance_profile_name)
            THEN a.instance_profile_name ELSE old.instance_profile_name,
        IF a.ebs_optimized = None \/ a.ebs_optimized = <<FALSE>>
            THEN old.ebs_optimized ELSE a.ebs_optimized,
        IF a.associate_public_ip_address = None
              \/ a.associate_public_ip_address = <<FALSE>>
            THEN old.associate_public_ip_address
            ELSE a.associate_public_ip_address)

merge_lcs_oldname(old, a) ==
    LaunchConfiguration(
        old.name,
        IF a.image_id = None THEN old.image_id ELSE a.image_id,
        IF a.key_name = None THEN old.key_name ELSE a.key_name,
        IF a.security_groups = None THEN old.security_groups ELSE a.security_groups,
        IF a.user_data = None THEN old.user_data ELSE a.user_data,
        IF a.instance_type = None THEN old.instance_type ELSE a.instance_type,
        IF a.instance_monitoring = None
            THEN old.instance_monitoring ELSE a.instance_monitoring,
        IF a.spot_price = None THEN old.spot_price ELSE a.spot_price,
        IF a.instance_profile_name = None
            THEN old.instance_profile_name ELSE a.instance_profile_name,
        IF a.ebs_optimized = None THEN old.ebs_optimized ELSE a.ebs_optimized,
        IF a.associate_public_ip_address = None
            THEN old.associate_public_ip_address
            ELSE a.associate_public_ip_address)

merge_lcs(old, a) ==
    LET lc_name == a.new_lc_name
        image_id == IF a.image_id = None THEN old.image_id ELSE a.image_id
        key_name == IF a.key_name = None THEN old.key_name ELSE a.key_name
        security_groups ==
            IF a.security_groups = None
            THEN old.security_groups ELSE a.security_groups
        user_data == IF a.user_data = None THEN old.user_data ELSE a.user_data
        instance_type ==
            IF a.instance_type = None THEN old.instance_type ELSE a.instance_type
        instance_monitoring ==
            IF a.instance_monitoring = None
            THEN old.instance_monitoring ELSE a.instance_monitoring
        spot_price == IF a.spot_price = None THEN old.spot_price ELSE a.spot_price
        instance_profile_name ==
            IF a.instance_profile_name = None
            THEN old.instance_profile_name ELSE a.instance_profile_name
        ebs_optimized ==
            IF a.ebs_optimized = None THEN old.ebs_optimized ELSE a.ebs_optimized
        associate_public_ip_address ==
            IF a.associate_public_ip_address = None
            THEN old.associate_public_ip_address
            ELSE a.associate_public_ip_address
    IN  LaunchConfiguration(lc_name, image_id, key_name, security_groups,
                            user_data, instance_type, instance_monitoring,
                            spot_price, instance_profile_name, ebs_optimized,
                            associate_public_ip_address)

(***************************************************************************)
(* The steps that touch the environment and boto.  Each yields what the    *)
(* step leaves behind: exit is None when the step returns and <<status>>   *)
(* when it ends the process, out is what it printed, called is the boto    *)
(* calls it made.                                                          *)
(***************************************************************************)
Returned == [exit |-> None, out |-> <<>>]

(* The except blocks: "FATAL ERROR:", the traceback, then sys.exit(msg). *)
Fatal(msg) == [exit |-> <<1>>, out |-> <<"FATAL ERROR:", msg>>]

Call(op, result) == [op |-> op, result |-> result]

pre_check(environ) ==
    IF "AWS_DEFAULT_REGION" \in environ
    THEN Returned
    ELSE Fatal("Please set your shell variables for AWS access")

(* r is how connect_to_region ends: a connection, None, or an exception. *)
botoconn(a, r) ==
    LET called == <<Call("connect_to_region", r)>>
    IN  IF r = "raise"
        THEN Fatal("Failed to connect to AWS. Did you set the shell vars right?")
             @@ [conn |-> None, called |-> called]
        ELSE Returned @@
             [conn |-> IF r = "ok" THEN <<"AutoScaleConnection">> ELSE None,
              called |-> called]

get_all_launch_configurations(service, names) ==
    SelectSeq(service, LAMBDA lc : lc.name \in names)

get_lc_exit0(a, c, service, r) ==
    LET called == <<Call("get_all_launch_configurations", r)>>
        lcs == get_all_launch_configurations(service, {a.old_lc_name})
    IN  CASE c = None ->
                [exit |-> <<0>>, out |-> <<"FATAL ERROR:">>,
                 lc |-> None, called |-> <<>>]
          [] c # None /\ (r = "raise" \/ Len(lcs) = 0) ->
                [exit |-> <<0>>, out |-> <<"FATAL ERROR:">>,
                 lc |-> None, called |-> called]
          [] OTHER -> Returned @@ [lc |-> <<lcs[1]>>, called |-> called]

get_lc_single(a, c, service, r) ==
    LET called == <<Call("get_all_launch_configurations", r)>>
        lcs == get_all_launch_configurations(service, {a.old_lc_name})
    IN  CASE c = None ->
                Fatal("Failed to get source LC") @@ [lc |-> None, called |-> <<>>]
          [] c # None /\ (r = "raise" \/ Len(lcs) # 1) ->
                Fatal("Failed to get source LC") @@ [lc |-> None, called |-> called]
          [] OTHER -> Returned @@ [lc |-> <<lcs[1]>>, called |-> called]

(* c is the connection (None has no get_all_launch_configurations), r is  *)
(* how the lookup ends: a list, or an exception.                           *)
get_lc(a, c, service, r) ==
    LET called == <<Call("get_all_launch_configurations", r)>>
        lcs == get_all_launch_configurations(service, {a.old_lc_name})
    IN  CASE c = None ->
                Fatal("Failed to get source LC") @@ [lc |-> None, called |-> <<>>]
          [] c # None /\ (r = "raise" \/ Len(lcs) = 0) ->
                Fatal("Failed to get source LC") @@ [lc |-> None, called |-> called]
          [] OTHER -> Returned @@ [lc |-> <<lcs[1]>>, called |-> called]

create_launch_configuration(service, lc) == Append(service, lc)

create_lc_retry(lc, service, r) ==
    LET called == <<Call("create_launch_configuration", r)>>
    IN  IF r = "ok"
        THEN Returned @@
             [service |-> create_launch_configuration(service, lc),
              called |-> called]
        ELSE Fatal("Failed to create new LC") @@
             [service |-> service, called |-> called \o called]

create_lc_swallow(lc, service, r) ==
    LET called == <<Call("create_launch_configuration", r)>>
    IN  IF r = "ok"
        THEN Returned @@
             [service |-> create_launch_configuration(service, lc),
              called |-> called]
        ELSE [exit |-> None, out |-> <<"FATAL ERROR:">>,
              service |-> service, called |-> called]

(* r is how create_launch_configuration ends: done, or an exception. *)
create_lc(lc, service, r) ==
    LET called == <<Call("create_launch_configuration", r)>>
    IN  IF r = "ok"
        THEN Returned @@
             [service |-> create_launch_configuration(service, lc),
              called |-> called]
        ELSE Fatal("Failed to create new LC") @@
             [service |-> service, called |-> called]

(***************************************************************************)
(* main, one action per statement.                                         *)
(***************************************************************************)
Init ==
    /\ pc = "pre_check"
    /\ env \in SUBSET EnvVars
    /\ argv = None
    /\ args = None
    /\ conn = None
    /\ old_lc = None
    /\ new_lc = None
    /\ backend \in Backends
    /\ backend_before = backend
    /\ calls = <<>>
    /\ exit_code = None
    /\ output = <<>>

(* The statement returned (go on to step) or ended the process. *)
Continue(r, step) ==
    /\ pc' = IF r.exit = None THEN step ELSE "exit"
    /\ exit_code' = r.exit
    /\ output' = output \o r.out

main_pre_check ==
    /\ pc = "pre_check"
    /\ Continue(pre_check(env), "parse_cli")
    /\ UNCHANGED <<env, argv, args, conn, old_lc, new_lc, backend,
                   backend_before, calls>>

main_parse_cli ==
    /\ pc = "parse_cli"
    /\ \E av \in Argvs :
        LET r == parse_cli(av)
        IN  /\ argv' = <<av>>
            /\ args' = IF r.exit = None THEN <<r.ns>> ELSE None
            /\ Continue([exit |-> r.exit,
                         out |-> IF r.exit = None THEN <<>> ELSE <<r.msg>>],
                        "botoconn")
    /\ UNCHANGED <<env, conn, old_lc, new_lc, backend, backend_before, calls>>

main_botoconn ==
    /\ pc = "botoconn"
    /\ \E r \in {"ok", "None", "raise"} :
        LET b == botoconn(args[1], r)
        IN  /\ conn' = b.conn
            /\ calls' = calls \o b.called
            /\ Continue(b, "get_lc")
    /\ UNCHANGED <<env, argv, args, old_lc, new_lc, backend, backend_before>>

main_get_lc ==
    /\ pc = "get_lc"
    /\ \E r \in {"ok", "raise"} :
        LET g == get_lc(args[1], conn, backend, r)
        IN  /\ old_lc' = g.lc
            /\ calls' = calls \o g.called
            /\ Continue(g, "merge_lcs")
    /\ UNCHANGED <<env, argv, args, conn, new_lc, backend, backend_before>>

(* The LaunchConfiguration constructor returns, or raises. *)
main_merge_lcs ==
    /\ pc = "merge_lcs"
    /\ \E r \in {"ok", "raise"} :
        IF r = "ok"
        THEN /\ new_lc' = <<merge_lcs(old_lc[1], args[1])>>
             /\ Continue(Returned, "create_lc")
        ELSE /\ new_lc' = None
             /\ Continue(Fatal("Failed to create launch config object in boto"),
                         "create_lc")
    /\ UNCHANGED <<env, argv, args, conn, old_lc, backend, backend_before, calls>>

(* The service refuses a name it already holds; it may refuse any other. *)
main_create_lc ==
    /\ pc = "create_lc"
    /\ \E r \in {"ok", "reject"} :
        /\ r = "ok" => \A i \in DOMAIN backend : backend[i].name # new_lc[1].name
        /\ LET c == create_lc(new_lc[1], backend, r)
           IN  /\ backend' = c.service
               /\ calls' = calls \o c.called
               /\ pc' = "exit"
               /\ exit_code' = IF c.exit = None THEN <<0>> ELSE c.exit
               /\ output' = output \o c.out
    /\ UNCHANGED <<env, argv, args, conn, old_lc, new_lc, backend_before>>

Next ==
    \/ main_pre_check
    \/ main_parse_cli
    \/ main_botoconn
    \/ main_get_lc
    \/ main_merge_lcs
    \/ main_create_lc

Spec == Init /\ [][Next]_vars

(***************************************************************************)
(* Vocabulary of the properties.                                           *)
(***************************************************************************)
OverrideFields ==
    {"image_id", "key_name", "security_groups", "user_data", "instance_type",
     "instance_monitoring", "spot_price", "instance_profile_name",
     "ebs_optimized", "associate_public_ip_address"}

BooleanFields ==
    {"instance_monitoring", "ebs_optimized", "associate_public_ip_address"}

EnableFlag(f) ==
    CASE f = "instance_monitoring" -> "--enable-instance-monitoring"
      [] f = "ebs_optimized" -> "--enable-ebs-optimized"
      [] OTHER -> "--enable-associate-public-ip-address"

DisableFlag(f) ==
    CASE f = "instance_monitoring" -> "--disable-instance-monitoring"
      [] f = "ebs_optimized" -> "--disable-ebs-optimized"
      [] OTHER -> "--disable-associate-public-ip-address"

(* The command line was read and option o is on it. *)
Passed(o) ==
    argv # None /\ \E i \in DOMAIN argv[1].opts : argv[1].opts[i].opt = o

(* The values given to option o, in command-line order. *)
ValuesOf(o) ==
    LET given == SelectSeq(argv[1].opts, LAMBDA t : t.opt = o)
    IN  [i \in DOMAIN given |-> given[i].val]

Ran(op) == \E i \in DOMAIN calls : calls[i].op = op

Ended(op, result) == \E i \in DOMAIN calls : calls[i] = Call(op, result)

CreateCount ==
    Cardinality({i \in DOMAIN calls : calls[i].op = "create_launch_configuration"})

CreateCompleted == Ended("create_launch_configuration", "ok")

FailedExit == pc = "exit" /\ exit_code # None /\ exit_code # <<0>>

(* What the service holds under the old name when the run begins. *)
Matches == get_all_launch_configurations(backend_before, {OldName})

MissingUserData ==
    /\ Passed("--user-data-script")
    /\ \E i \in DOMAIN ValuesOf("--user-data-script") :
          ~isfile(ValuesOf("--user-data-script")[i])

NonNumericSpotPrice ==
    /\ Passed("--spot-price")
    /\ \E i \in DOMAIN ValuesOf("--spot-price") :
          ValuesOf("--spot-price")[i] \notin DOMAIN FloatOf

NegativeSpotPrice ==
    /\ Passed("--spot-price")
    /\ \E i \in DOMAIN ValuesOf("--spot-price") :
          /\ ValuesOf("--spot-price")[i] \in DOMAIN FloatOf
          /\ FloatOf[ValuesOf("--spot-price")[i]] < 0

(***************************************************************************)
(* Properties.                                                             *)
(***************************************************************************)

(* C1: every field of the merged launch configuration other than the name *)
(* is the command line's value when the command line gave one (False, 0   *)
(* and '' included), and the source's value of that same field otherwise. *)
C1_MergeTakesOverrideElseSource ==
    new_lc # None =>
        \A f \in OverrideFields :
            new_lc[1][f] =
                IF args[1][f] # None THEN args[1][f] ELSE old_lc[1][f]

C1_Witness ==
    /\ new_lc # None
    /\ args[1].spot_price = <<0>>
    /\ args[1].key_name = <<"">>
    /\ new_lc[1].spot_price = <<0>>
    /\ new_lc[1].key_name = <<"">>
    /\ args[1].image_id = None
    /\ new_lc[1].image_id = old_lc[1].image_id

(* C2: the merged launch configuration, and the one create stores, carry *)
(* the new name given on the command line, whatever the source's name.   *)
C2_MergedNameIsNewName ==
    /\ new_lc # None => new_lc[1].name = argv[1].new_lc_name
    /\ CreateCompleted => backend[Len(backend)].name = argv[1].new_lc_name

C2_Witness ==
    /\ new_lc # None
    /\ argv[1].new_lc_name = old_lc[1].name
    /\ new_lc[1].name = argv[1].new_lc_name

(* C3: for each boolean field, only the --disable flag gives a merged     *)
(* False, only the --enable flag gives a merged True, and neither flag    *)
(* gives the source's value.                                              *)
C3_ExplicitFalseSurvives ==
    new_lc # None =>
        \A f \in BooleanFields :
            /\ Passed(DisableFlag(f)) /\ ~Passed(EnableFlag(f))
                    => new_lc[1][f] = <<FALSE>>
            /\ Passed(EnableFlag(f)) /\ ~Passed(DisableFlag(f))
                    => new_lc[1][f] = <<TRUE>>
            /\ ~Passed(EnableFlag(f)) /\ ~Passed(DisableFlag(f))
                    => new_lc[1][f] = old_lc[1][f]

C3_Witness ==
    /\ new_lc # None
    /\ Passed("--disable-instance-monitoring")
    /\ ~Passed("--enable-instance-monitoring")
    /\ old_lc[1].instance_monitoring = <<TRUE>>
    /\ new_lc[1].instance_monitoring = <<FALSE>>

(* C4: the boto calls are made in the order connect, fetch, create, each  *)
(* only after the earlier ones succeeded; each step's result exists only  *)
(* when the earlier steps produced theirs; and when the fetch fails (an   *)
(* exception, or no match) the run has ended non-zero without a merge or  *)
(* a create.                                                              *)
StepOrder ==
    <<"connect_to_region", "get_all_launch_configurations",
      "create_launch_configuration">>

FetchFailed ==
    \/ Ended("get_all_launch_configurations", "raise")
    \/ Ended("get_all_launch_configurations", "ok") /\ Len(Matches) = 0

C4_StepsInOrderAndFetchFailureStops ==
    /\ Len(calls) <= Len(StepOrder)
    /\ \A i \in DOMAIN calls : calls[i].op = StepOrder[i]
    /\ \A i \in DOMAIN calls : i < Len(calls) => calls[i].result = "ok"
    /\ argv # None => "AWS_DEFAULT_REGION" \in env
    /\ calls # <<>> => args # None
    /\ old_lc # None => conn # None
    /\ new_lc # None => old_lc # None
    /\ Ran("create_launch_configuration") => new_lc # None
    /\ exit_code # None => pc = "exit"
    /\ FetchFailed =>
          FailedExit /\ old_lc = None /\ new_lc = None /\ CreateCount = 0

C4_Witness ==
    /\ Ended("get_all_launch_configurations", "ok")
    /\ Len(Matches) = 0
    /\ FailedExit
    /\ CreateCount = 0

(* C5: create is called at most once, it is the only call that changes    *)
(* what the service holds, every launch configuration held before the run *)
(* is still held unchanged, and after a rejected create the service holds *)
(* exactly what it held before the run.                                   *)
C5_CreateOnceSourceUntouched ==
    /\ CreateCount <= 1
    /\ Len(backend) >= Len(backend_before)
    /\ SubSeq(backend, 1, Len(backend_before)) = backend_before
    /\ backend # backend_before =>
          CreateCompleted /\ backend = Append(backend_before, new_lc[1])
    /\ Ended("create_launch_configuration", "reject") =>
          backend = backend_before
    /\ old_lc # None => \E i \in DOMAIN backend : backend[i] = old_lc[1]

C5_Witness ==
    /\ Ended("create_launch_configuration", "reject")
    /\ CreateCount = 1
    /\ FailedExit
    /\ backend = backend_before

(* C6: with a --user-data-script path that is no file, the run has ended  *)
(* non-zero and no boto call (connect, fetch, create) was made.           *)
C6_MissingUserDataStopsBeforeNetwork ==
    MissingUserData => FailedExit /\ calls = <<>> /\ args = None

C6_Witness ==
    /\ MissingUserData
    /\ FailedExit
    /\ output = <<"File not found">>

(* C7: when the region variable or either credential variable is not set, *)
(* no boto call (connect, fetch, create) is ever made.                    *)
C7_MissingEnvironmentStopsBeforeNetwork ==
    env # EnvVars => calls = <<>>

StepRank(p) ==
    CASE p = "pre_check" -> 0
      [] p = "parse_cli" -> 1
      [] p = "botoconn" -> 2
      [] p = "get_lc" -> 3
      [] p = "merge_lcs" -> 4
      [] p = "create_lc" -> 5
      [] OTHER -> 6

C10_ExitStatus ==
    /\ pc = "exit" <=> exit_code # None
    /\ pc = "exit" =>
          /\ exit_code = <<0>> <=> CreateCompleted
          /\ exit_code # <<0>> => output # <<>>
    /\ \A i \in DOMAIN calls :
          calls[i].result \in {"raise", "reject"} => FailedExit

====
